---- MODULE Spec2Model ----
(***************************************************************************)
(* HapticArtFHE: the contract embedded in frontend/web/src/App.tsx         *)
(* (lines 530-733).  Samples of encrypted tactile input are registered     *)
(* under sequential ids, a decryption of a sample or of a named metric is  *)
(* requested from the FHE decryption oracle, and the oracle's answer comes *)
(* back through a callback that is correlated by requestToSampleId.        *)
(*                                                                         *)
(* Every public function is one action, translated from its code.  A call  *)
(* that reverts leaves the contract storage as it was (EVM revert); the    *)
(* variable `last` records the call, its outcome and the events it         *)
(* emitted.  The environment (the disjuncts of Next) chooses the calls and *)
(* their arguments and stops submitting and requesting at the bounds.      *)
(***************************************************************************)
EXTENDS Integers, Sequences, FiniteSets, TLC

\* ------------------------------------------------------------------ bounds
MaxSamples == 2
MaxRequests == 1
MaxStores == 3
MaxPending == 2
MaxRecords == 3

\* ------------------------------------------------------------ input domains
Callers == {"alice", "bob"}
Keys == {"heat", "pulse"}
Proofs == {"valid", "forged"}

\* euint32: a handle is uninitialised (the zero handle) or stands for a
\* 32-bit plaintext, kept as two 16-bit halves.
Half == 65536

Uninit == [init |-> FALSE, hi |-> 0, lo |-> 0]

Enc(hi, lo) == [init |-> TRUE, hi |-> hi, lo |-> lo]

isInitialized(h) == h.init

\* Variant: the carry out of the low half is lost.
FHEadd_noCarry(a, b) ==
    [init |-> TRUE, hi |-> (a.hi + b.hi) % Half, lo |-> (a.lo + b.lo) % Half]

\* FHE.add: 32-bit wrapping addition under encryption; an uninitialised
\* operand counts as an encryption of 0 and the result is initialised.
FHEadd(a, b) ==
    LET lo == a.lo + b.lo
        hi == a.hi + b.hi + (lo \div Half)
    IN  [init |-> TRUE, hi |-> hi % Half, lo |-> lo % Half]

\* FHE.toBytes32: the bytes32 underlying the handle.
toBytes32(h) == <<h.init, h.hi, h.lo>>

\* uint256(keccak256(abi.encodePacked(key))): a non-zero value far outside
\* the range of the sequential sample ids, different for different keys.
Keccak(key) == CASE key = "heat" -> 1900000007
                 [] key = "pulse" -> 2000000011
                 [] OTHER -> 1800000001

SampleIds == 0 .. (MaxSamples + 1)
PseudoIds == {Keccak(k) : k \in Keys}
Ids == SampleIds \cup PseudoIds
RequestIds == 0 .. (IF MaxPending > MaxRequests THEN MaxPending ELSE MaxRequests)

\* The arguments of submitEncryptedSample together with msg.sender and
\* block.timestamp.
SubmitInputs ==
    { [intensity |-> Enc(0, 3), frequency |-> Enc(0, 40), contactType |-> Enc(0, 1),
       sender |-> "alice", time |-> 1000] }

\* The key and the value accumulated by the environment of Spec: an
\* initialised handle whose plaintext leaves the running sum where it is, so
\* that accumulating needs no bound.
StoredKeys == {"heat"}

MetricValues == {Enc(0, 0)}

\* Callback payloads (bytes cleartexts), by what they are the ABI encoding of.
\* A uint32 is kept as its two 16-bit halves <<hi, lo>>, like a plaintext.
StringCleartexts ==
    { [kind |-> "strings", strings |-> <<"cube">>, value |-> <<0, 0>>],
      [kind |-> "strings", strings |-> <<"sphere", "soft">>, value |-> <<0, 0>>] }

UintCleartexts ==
    { [kind |-> "uint32", strings |-> <<>>, value |-> v] : v \in {<<0, 12>>} }

Cleartexts == StringCleartexts \cup UintCleartexts

\* abi.decode(cleartexts, (string[])): the encoding of the uint 0 reads as an
\* array of length 0; any other uint is an offset past the end of the data.
DecodesAsStrings(c) == c.kind = "strings" \/ (c.kind = "uint32" /\ c.value = <<0, 0>>)

DecodeStrings(c) == IF c.kind = "strings" THEN c.strings ELSE <<>>

\* abi.decode(cleartexts, (uint32)): the first word. The first word of an
\* encoded string[] is the offset 0x20.
DecodeUint32(c) == IF c.kind = "uint32" THEN c.value ELSE <<0, 32>>

\* FHE.checkSignatures: reverts unless the proof is valid.
checkSignatures(requestId, cleartexts, proof) == proof = "valid"

\* ------------------------------------------------------------------- state
\* Front-end: the browsers running the page, and the bytes the storage
\* contract returns for a key never set.
Clients == {"c1", "c2"}
EmptyBytes == [length |-> 0, items |-> <<>>]

\* ethers.toUtf8Bytes(JSON.stringify(keys)): a JSON array takes at least the
\* two brackets; every item adds its quoted text and a comma after the first.
StringifyKeys(list) == [length |-> 2 + 3 * Len(list), items |-> list]

\* JSON.parse(ethers.toUtf8String(keysBytes)) when keysBytes.length > 0, else [].
ParseKeys(bytes) == IF bytes.length > 0 THEN bytes.items ELSE <<>>

VARIABLES
    sampleCount,          \* uint256 public sampleCount
    encryptedSamples,     \* mapping(uint256 => EncryptedSample)
    transformations,      \* mapping(uint256 => Transformation)
    requestToSampleId,    \* mapping(uint256 => uint256), 0 = absent
    encryptedMetric,      \* mapping(string => euint32)
    metricKeys,           \* string[]
    decryptionRequests,   \* the oracle's requests; request id = index - 1
    last,                 \* the last call: operation, arguments, outcome, events
    submitLog,            \* history: ids assigned by successful submissions
    doneSample,           \* history: request ids for which handleDecryption has succeeded
    doneMetric,           \* history: request ids for which handleMetricDecryption has succeeded
    metricLog,            \* history kept by the metric specifications: the values stored, per key
    kvKeys,               \* front-end: the bytes stored under "haptic_keys"
    kvRecords,            \* front-end: the record ids with data stored under haptic_<id>
    pc,                   \* front-end: each client's position in submitRecord
    recordId,             \* front-end: each client's const recordId
    keys,                 \* front-end: each client's local let keys
    shown,                \* front-end: each client's records state (ids listed)
    nextRecord,           \* front-end: number of record ids generated so far
    succeeded             \* history: record ids whose submitRecord reached "success"

storage == <<sampleCount, encryptedSamples, transformations, requestToSampleId,
             encryptedMetric, metricKeys>>

history == <<submitLog, doneSample, doneMetric>>

frontend == <<kvKeys, kvRecords, pc, recordId, keys, shown, nextRecord, succeeded>>

vars == <<sampleCount, encryptedSamples, transformations, requestToSampleId,
          encryptedMetric, metricKeys, decryptionRequests, last,
          submitLog, doneSample, doneMetric, metricLog,
          kvKeys, kvRecords, pc, recordId, keys, shown, nextRecord, succeeded>>

NoSample == [id |-> 0, encryptedIntensity |-> Uninit, encryptedFrequency |-> Uninit,
             encryptedContactType |-> Uninit, timestamp |-> 0, submitter |-> ""]

NoTransformation == [shapeDescriptor |-> "", textureDescriptor |-> "", revealed |-> FALSE]

\* The record of a call. proof is the proof as FHE.checkSignatures saw it,
\* "" when the call did not get as far as the check.
Call(op, id, requestId, key, proof, result, events) ==
    [op |-> op, id |-> id, requestId |-> requestId, key |-> key, proof |-> proof,
     result |-> result, events |-> events]

Init ==
    /\ sampleCount = 0
    /\ encryptedSamples = [i \in Ids |-> NoSample]
    /\ transformations = [i \in Ids |-> NoTransformation]
    /\ requestToSampleId = [r \in RequestIds |-> 0]
    /\ encryptedMetric = [k \in Keys |-> Uninit]
    /\ metricKeys = <<>>
    /\ decryptionRequests = <<>>
    /\ last = Call("constructor", 0, 0, "", "", "ok", <<>>)
    /\ submitLog = <<>>
    /\ doneSample = {}
    /\ doneMetric = {}
    /\ metricLog = [k \in Keys |-> <<>>]
    /\ kvKeys = EmptyBytes
    /\ kvRecords = {}
    /\ pc = [c \in Clients |-> "idle"]
    /\ recordId = [c \in Clients |-> 0]
    /\ keys = [c \in Clients |-> <<>>]
    /\ shown = [c \in Clients |-> <<>>]
    /\ nextRecord = 0
    /\ succeeded = {}

\* FHE.requestDecryption: the oracle numbers the requests 0, 1, 2, ...
requestDecryption(ciphertexts, selector) ==
    Append(decryptionRequests, [ciphertexts |-> ciphertexts, selector |-> selector])

\* A call that reverts: nothing but the record of the call changes.
Revert(call) ==
    /\ last' = call
    /\ UNCHANGED <<storage, decryptionRequests, history>>

\* Variant: the modifier admits the sample's submitter only.
onlySubmitter_enforced(sampleId, sender) == encryptedSamples[sampleId].submitter = sender

\* modifier onlySubmitter: a placeholder that lets every caller through.
onlySubmitter(sampleId, sender) == TRUE

\* ----------------------------------------------------------------- actions
\* Variant: the id is read before the counter is incremented.
submitEncryptedSample_staleId(in) ==
    /\ LET newId == sampleCount IN
        /\ sampleCount' = sampleCount + 1
        /\ encryptedSamples' = [encryptedSamples EXCEPT ![newId] =
              [id |-> newId, encryptedIntensity |-> in.intensity,
               encryptedFrequency |-> in.frequency,
               encryptedContactType |-> in.contactType,
               timestamp |-> in.time, submitter |-> in.sender]]
        /\ transformations' = [transformations EXCEPT ![newId] = NoTransformation]
        /\ submitLog' = Append(submitLog, newId)
        /\ last' = Call("submitEncryptedSample", newId, 0, "", "", "ok",
                        <<[name |-> "SampleSubmitted", id |-> newId,
                           submitter |-> in.sender, timestamp |-> in.time]>>)
    /\ UNCHANGED <<requestToSampleId, encryptedMetric, metricKeys,
                   decryptionRequests, doneSample, doneMetric>>

\* Variant: the intensity and frequency handles are stored in each other's field.
submitEncryptedSample_swapped(in) ==
    /\ LET newId == sampleCount + 1 IN
        /\ sampleCount' = newId
        /\ encryptedSamples' = [encryptedSamples EXCEPT ![newId] =
              [id |-> newId, encryptedIntensity |-> in.frequency,
               encryptedFrequency |-> in.intensity,
               encryptedContactType |-> in.contactType,
               timestamp |-> in.time, submitter |-> in.sender]]
        /\ transformations' = [transformations EXCEPT ![newId] = NoTransformation]
        /\ submitLog' = Append(submitLog, newId)
        /\ last' = Call("submitEncryptedSample", newId, 0, "", "", "ok",
                        <<[name |-> "SampleSubmitted", id |-> newId,
                           submitter |-> in.sender, timestamp |-> in.time]>>)
    /\ UNCHANGED <<requestToSampleId, encryptedMetric, metricKeys,
                   decryptionRequests, doneSample, doneMetric>>

submitEncryptedSample(in) ==
    /\ LET newId == sampleCount + 1 IN
        /\ sampleCount' = newId
        /\ encryptedSamples' = [encryptedSamples EXCEPT ![newId] =
              [id |-> newId, encryptedIntensity |-> in.intensity,
               encryptedFrequency |-> in.frequency,
               encryptedContactType |-> in.contactType,
               timestamp |-> in.time, submitter |-> in.sender]]
        /\ transformations' = [transformations EXCEPT ![newId] = NoTransformation]
        /\ submitLog' = Append(submitLog, newId)
        /\ last' = Call("submitEncryptedSample", newId, 0, "", "", "ok",
                        <<[name |-> "SampleSubmitted", id |-> newId,
                           submitter |-> in.sender, timestamp |-> in.time]>>)
    /\ UNCHANGED <<requestToSampleId, encryptedMetric, metricKeys,
                   decryptionRequests, doneSample, doneMetric>>

\* Variant: the existence check tests the argument, not the stored sample.
requestTransformation_argCheck(sampleId, sender) ==
    LET s == encryptedSamples[sampleId] IN
    IF ~onlySubmitter(sampleId, sender)
    THEN Revert(Call("requestTransformation", sampleId, 0, "", "", "Not submitter", <<>>))
    ELSE IF sampleId = 0
    THEN Revert(Call("requestTransformation", sampleId, 0, "", "", "Invalid sample", <<>>))
    ELSE IF transformations[sampleId].revealed
    THEN Revert(Call("requestTransformation", sampleId, 0, "", "", "Already revealed", <<>>))
    ELSE
        /\ LET ciphertexts == <<toBytes32(s.encryptedIntensity),
                                toBytes32(s.encryptedFrequency),
                                toBytes32(s.encryptedContactType)>>
               reqId == Len(decryptionRequests)
           IN
            /\ decryptionRequests' = requestDecryption(ciphertexts, "handleDecryption")
            /\ requestToSampleId' = [requestToSampleId EXCEPT ![reqId] = sampleId]
            /\ last' = Call("requestTransformation", sampleId, reqId, "", "", "ok",
                            <<[name |-> "TransformationRequested", sampleId |-> sampleId,
                               requestId |-> reqId]>>)
        /\ UNCHANGED <<sampleCount, encryptedSamples, transformations,
                       encryptedMetric, metricKeys, history>>

\* Variant: the "Already revealed" check is missing.
requestTransformation_noRevealedCheck(sampleId, sender) ==
    LET s == encryptedSamples[sampleId] IN
    IF ~onlySubmitter(sampleId, sender)
    THEN Revert(Call("requestTransformation", sampleId, 0, "", "", "Not submitter", <<>>))
    ELSE IF s.id = 0
    THEN Revert(Call("requestTransformation", sampleId, 0, "", "", "Invalid sample", <<>>))
    ELSE IF FALSE
    THEN Revert(Call("requestTransformation", sampleId, 0, "", "", "Already revealed", <<>>))
    ELSE
        /\ LET ciphertexts == <<toBytes32(s.encryptedIntensity),
                                toBytes32(s.encryptedFrequency),
                                toBytes32(s.encryptedContactType)>>
               reqId == Len(decryptionRequests)
           IN
            /\ decryptionRequests' = requestDecryption(ciphertexts, "handleDecryption")
            /\ requestToSampleId' = [requestToSampleId EXCEPT ![reqId] = sampleId]
            /\ last' = Call("requestTransformation", sampleId, reqId, "", "", "ok",
                            <<[name |-> "TransformationRequested", sampleId |-> sampleId,
                               requestId |-> reqId]>>)
        /\ UNCHANGED <<sampleCount, encryptedSamples, transformations,
                       encryptedMetric, metricKeys, history>>

\* Variant: recording the new token drops the sample's earlier ledger entries.
requestTransformation_dropsEarlier(sampleId, sender) ==
    LET s == encryptedSamples[sampleId] IN
    IF s.id = 0
    THEN Revert(Call("requestTransformation", sampleId, 0, "", "", "Invalid sample", <<>>))
    ELSE IF transformations[sampleId].revealed
    THEN Revert(Call("requestTransformation", sampleId, 0, "", "", "Already revealed", <<>>))
    ELSE
        /\ LET ciphertexts == <<toBytes32(s.encryptedIntensity),
                                toBytes32(s.encryptedFrequency),
                                toBytes32(s.encryptedContactType)>>
               reqId == Len(decryptionRequests)
           IN
            /\ decryptionRequests' = requestDecryption(ciphertexts, "handleDecryption")
            /\ requestToSampleId' =
                  [r \in DOMAIN requestToSampleId |->
                      IF r = reqId THEN sampleId
                      ELSE IF requestToSampleId[r] = sampleId THEN 0
                      ELSE requestToSampleId[r]]
            /\ last' = Call("requestTransformation", sampleId, reqId, "", "", "ok",
                            <<[name |-> "TransformationRequested", sampleId |-> sampleId,
                               requestId |-> reqId]>>)
        /\ UNCHANGED <<sampleCount, encryptedSamples, transformations,
                       encryptedMetric, metricKeys, history>>

requestTransformation(sampleId, sender) ==
    LET s == encryptedSamples[sampleId] IN
    IF ~onlySubmitter(sampleId, sender)
    THEN Revert(Call("requestTransformation", sampleId, 0, "", "", "Not submitter", <<>>))
    ELSE IF s.id = 0
    THEN Revert(Call("requestTransformation", sampleId, 0, "", "", "Invalid sample", <<>>))
    ELSE IF transformations[sampleId].revealed
    THEN Revert(Call("requestTransformation", sampleId, 0, "", "", "Already revealed", <<>>))
    ELSE
        /\ LET ciphertexts == <<toBytes32(s.encryptedIntensity),
                                toBytes32(s.encryptedFrequency),
                                toBytes32(s.encryptedContactType)>>
               reqId == Len(decryptionRequests)
           IN
            /\ decryptionRequests' = requestDecryption(ciphertexts, "handleDecryption")
            /\ requestToSampleId' = [requestToSampleId EXCEPT ![reqId] = sampleId]
            /\ last' = Call("requestTransformation", sampleId, reqId, "", "", "ok",
                            <<[name |-> "TransformationRequested", sampleId |-> sampleId,
                               requestId |-> reqId]>>)
        /\ UNCHANGED <<sampleCount, encryptedSamples, transformations,
                       encryptedMetric, metricKeys, history>>

\* Variant: FHE.checkSignatures is not called.
handleDecryption_noSigCheck(requestId, cleartexts, proof) ==
    LET sampleId == requestToSampleId[requestId] IN
    IF sampleId = 0
    THEN Revert(Call("handleDecryption", 0, requestId, "", "", "Unknown request", <<>>))
    ELSE IF transformations[sampleId].revealed
    THEN Revert(Call("handleDecryption", sampleId, requestId, "", "", "Already processed", <<>>))
    ELSE IF FALSE
    THEN Revert(Call("handleDecryption", sampleId, requestId, "", proof, "Invalid signatures", <<>>))
    ELSE IF ~DecodesAsStrings(cleartexts)
    THEN Revert(Call("handleDecryption", sampleId, requestId, "", proof, "Decode error", <<>>))
    ELSE
        LET results == DecodeStrings(cleartexts) IN
        /\ transformations' = [transformations EXCEPT ![sampleId] =
              [shapeDescriptor |-> IF Len(results) > 0 THEN results[1] ELSE "",
               textureDescriptor |-> IF Len(results) > 1 THEN results[2] ELSE "",
               revealed |-> TRUE]]
        /\ doneSample' = doneSample \cup {requestId}
        /\ last' = Call("handleDecryption", sampleId, requestId, "", proof, "ok",
                        <<[name |-> "TransformationRevealed", sampleId |-> sampleId]>>)
        /\ UNCHANGED <<sampleCount, encryptedSamples, requestToSampleId, encryptedMetric,
                       metricKeys, decryptionRequests, submitLog, doneMetric>>

\* Variant: the "Unknown request" check is missing.
handleDecryption_noUnknownCheck(requestId, cleartexts, proof) ==
    LET sampleId == requestToSampleId[requestId] IN
    IF FALSE
    THEN Revert(Call("handleDecryption", 0, requestId, "", "", "Unknown request", <<>>))
    ELSE IF transformations[sampleId].revealed
    THEN Revert(Call("handleDecryption", sampleId, requestId, "", "", "Already processed", <<>>))
    ELSE IF ~checkSignatures(requestId, cleartexts, proof)
    THEN Revert(Call("handleDecryption", sampleId, requestId, "", proof, "Invalid signatures", <<>>))
    ELSE IF ~DecodesAsStrings(cleartexts)
    THEN Revert(Call("handleDecryption", sampleId, requestId, "", proof, "Decode error", <<>>))
    ELSE
        LET results == DecodeStrings(cleartexts) IN
        /\ transformations' = [transformations EXCEPT ![sampleId] =
              [shapeDescriptor |-> IF Len(results) > 0 THEN results[1] ELSE "",
               textureDescriptor |-> IF Len(results) > 1 THEN results[2] ELSE "",
               revealed |-> TRUE]]
        /\ doneSample' = doneSample \cup {requestId}
        /\ last' = Call("handleDecryption", sampleId, requestId, "", proof, "ok",
                        <<[name |-> "TransformationRevealed", sampleId |-> sampleId]>>)
        /\ UNCHANGED <<sampleCount, encryptedSamples, requestToSampleId, encryptedMetric,
                       metricKeys, decryptionRequests, submitLog, doneMetric>>

\* Variant: the "Already processed" check is missing.
handleDecryption_noRevealedCheck(requestId, cleartexts, proof) ==
    LET sampleId == requestToSampleId[requestId] IN
    IF sampleId = 0
    THEN Revert(Call("handleDecryption", 0, requestId, "", "", "Unknown request", <<>>))
    ELSE IF FALSE
    THEN Revert(Call("handleDecryption", sampleId, requestId, "", "", "Already processed", <<>>))
    ELSE IF ~checkSignatures(requestId, cleartexts, proof)
    THEN Revert(Call("handleDecryption", sampleId, requestId, "", proof, "Invalid signatures", <<>>))
    ELSE IF ~DecodesAsStrings(cleartexts)
    THEN Revert(Call("handleDecryption", sampleId, requestId, "", proof, "Decode error", <<>>))
    ELSE
        LET results == DecodeStrings(cleartexts) IN
        /\ transformations' = [transformations EXCEPT ![sampleId] =
              [shapeDescriptor |-> IF Len(results) > 0 THEN results[1] ELSE "",
               textureDescriptor |-> IF Len(results) > 1 THEN results[2] ELSE "",
               revealed |-> TRUE]]
        /\ doneSample' = doneSample \cup {requestId}
        /\ last' = Call("handleDecryption", sampleId, requestId, "", proof, "ok",
                        <<[name |-> "TransformationRevealed", sampleId |-> sampleId]>>)
        /\ UNCHANGED <<sampleCount, encryptedSamples, requestToSampleId, encryptedMetric,
                       metricKeys, decryptionRequests, submitLog, doneMetric>>

\* Variant: the texture descriptor is read from the first element.
handleDecryption_textureFirst(requestId, cleartexts, proof) ==
    LET sampleId == requestToSampleId[requestId] IN
    IF sampleId = 0
    THEN Revert(Call("handleDecryption", 0, requestId, "", "", "Unknown request", <<>>))
    ELSE IF transformations[sampleId].revealed
    THEN Revert(Call("handleDecryption", sampleId, requestId, "", "", "Already processed", <<>>))
    ELSE IF ~checkSignatures(requestId, cleartexts, proof)
    THEN Revert(Call("handleDecryption", sampleId, requestId, "", proof, "Invalid signatures", <<>>))
    ELSE IF ~DecodesAsStrings(cleartexts)
    THEN Revert(Call("handleDecryption", sampleId, requestId, "", proof, "Decode error", <<>>))
    ELSE
        LET results == DecodeStrings(cleartexts) IN
        /\ transformations' = [transformations EXCEPT ![sampleId] =
              [shapeDescriptor |-> IF Len(results) > 0 THEN results[1] ELSE "",
               textureDescriptor |-> IF Len(results) > 0 THEN results[1] ELSE "",
               revealed |-> TRUE]]
        /\ doneSample' = doneSample \cup {requestId}
        /\ last' = Call("handleDecryption", sampleId, requestId, "", proof, "ok",
                        <<[name |-> "TransformationRevealed", sampleId |-> sampleId]>>)
        /\ UNCHANGED <<sampleCount, encryptedSamples, requestToSampleId, encryptedMetric,
                       metricKeys, decryptionRequests, submitLog, doneMetric>>

\* Variant: a successful reveal wipes the sample's three handles.
handleDecryption_clearsHandles(requestId, cleartexts, proof) ==
    LET sampleId == requestToSampleId[requestId] IN
    IF sampleId = 0
    THEN Revert(Call("handleDecryption", 0, requestId, "", "", "Unknown request", <<>>))
    ELSE IF transformations[sampleId].revealed
    THEN Revert(Call("handleDecryption", sampleId, requestId, "", "", "Already processed", <<>>))
    ELSE IF ~checkSignatures(requestId, cleartexts, proof)
    THEN Revert(Call("handleDecryption", sampleId, requestId, "", proof, "Invalid signatures", <<>>))
    ELSE IF ~DecodesAsStrings(cleartexts)
    THEN Revert(Call("handleDecryption", sampleId, requestId, "", proof, "Decode error", <<>>))
    ELSE
        LET results == DecodeStrings(cleartexts) IN
        /\ transformations' = [transformations EXCEPT ![sampleId] =
              [shapeDescriptor |-> IF Len(results) > 0 THEN results[1] ELSE "",
               textureDescriptor |-> IF Len(results) > 1 THEN results[2] ELSE "",
               revealed |-> TRUE]]
        /\ doneSample' = doneSample \cup {requestId}
        /\ last' = Call("handleDecryption", sampleId, requestId, "", proof, "ok",
                        <<[name |-> "TransformationRevealed", sampleId |-> sampleId]>>)
        /\ encryptedSamples' = [encryptedSamples EXCEPT ![sampleId] =
              [@ EXCEPT !.encryptedIntensity = Uninit, !.encryptedFrequency = Uninit,
                        !.encryptedContactType = Uninit]]
        /\ UNCHANGED <<sampleCount, requestToSampleId, encryptedMetric,
                       metricKeys, decryptionRequests, submitLog, doneMetric>>

\* Variant: a successful callback deletes its ledger entry.
handleDecryption_consumesToken(requestId, cleartexts, proof) ==
    LET sampleId == requestToSampleId[requestId] IN
    IF sampleId = 0
    THEN Revert(Call("handleDecryption", 0, requestId, "", "", "Unknown request", <<>>))
    ELSE IF transformations[sampleId].revealed
    THEN Revert(Call("handleDecryption", sampleId, requestId, "", "", "Already processed", <<>>))
    ELSE IF ~checkSignatures(requestId, cleartexts, proof)
    THEN Revert(Call("handleDecryption", sampleId, requestId, "", proof, "Invalid signatures", <<>>))
    ELSE IF ~DecodesAsStrings(cleartexts)
    THEN Revert(Call("handleDecryption", sampleId, requestId, "", proof, "Decode error", <<>>))
    ELSE
        LET results == DecodeStrings(cleartexts) IN
        /\ transformations' = [transformations EXCEPT ![sampleId] =
              [shapeDescriptor |-> IF Len(results) > 0 THEN results[1] ELSE "",
               textureDescriptor |-> IF Len(results) > 1 THEN results[2] ELSE "",
               revealed |-> TRUE]]
        /\ doneSample' = doneSample \cup {requestId}
        /\ last' = Call("handleDecryption", sampleId, requestId, "", proof, "ok",
                        <<[name |-> "TransformationRevealed", sampleId |-> sampleId]>>)
        /\ requestToSampleId' = [requestToSampleId EXCEPT ![requestId] = 0]
        /\ UNCHANGED <<sampleCount, encryptedSamples, encryptedMetric,
                       metricKeys, decryptionRequests, submitLog, doneMetric>>

handleDecryption(requestId, cleartexts, proof) ==
    LET sampleId == requestToSampleId[requestId] IN
    IF sampleId = 0
    THEN Revert(Call("handleDecryption", 0, requestId, "", "", "Unknown request", <<>>))
    ELSE IF transformations[sampleId].revealed
    THEN Revert(Call("handleDecryption", sampleId, requestId, "", "", "Already processed", <<>>))
    ELSE IF ~checkSignatures(requestId, cleartexts, proof)
    THEN Revert(Call("handleDecryption", sampleId, requestId, "", proof, "Invalid signatures", <<>>))
    ELSE IF ~DecodesAsStrings(cleartexts)
    THEN Revert(Call("handleDecryption", sampleId, requestId, "", proof, "Decode error", <<>>))
    ELSE
        LET results == DecodeStrings(cleartexts) IN
        /\ transformations' = [transformations EXCEPT ![sampleId] =
              [shapeDescriptor |-> IF Len(results) > 0 THEN results[1] ELSE "",
               textureDescriptor |-> IF Len(results) > 1 THEN results[2] ELSE "",
               revealed |-> TRUE]]
        /\ doneSample' = doneSample \cup {requestId}
        /\ last' = Call("handleDecryption", sampleId, requestId, "", proof, "ok",
                        <<[name |-> "TransformationRevealed", sampleId |-> sampleId]>>)
        /\ UNCHANGED <<sampleCount, encryptedSamples, requestToSampleId, encryptedMetric,
                       metricKeys, decryptionRequests, submitLog, doneMetric>>

\* Variant: a later value replaces the running sum instead of being added.
storeEncryptedMetric_overwrite(key, value) ==
    /\ IF ~isInitialized(encryptedMetric[key])
       THEN /\ encryptedMetric' = [encryptedMetric EXCEPT ![key] = value]
            /\ metricKeys' = Append(metricKeys, key)
       ELSE /\ encryptedMetric' = [encryptedMetric EXCEPT ![key] = value]
            /\ UNCHANGED metricKeys
    /\ last' = Call("storeEncryptedMetric", 0, 0, key, "", "ok", <<>>)
    /\ UNCHANGED <<sampleCount, encryptedSamples, transformations, requestToSampleId,
                   decryptionRequests, history>>

storeEncryptedMetric(key, value) ==
    /\ IF ~isInitialized(encryptedMetric[key])
       THEN /\ encryptedMetric' = [encryptedMetric EXCEPT ![key] = value]
            /\ metricKeys' = Append(metricKeys, key)
       ELSE /\ encryptedMetric' = [encryptedMetric EXCEPT ![key] = FHEadd(@, value)]
            /\ UNCHANGED metricKeys
    /\ last' = Call("storeEncryptedMetric", 0, 0, key, "", "ok", <<>>)
    /\ UNCHANGED <<sampleCount, encryptedSamples, transformations, requestToSampleId,
                   decryptionRequests, history>>

requestMetricDecryption(key) ==
    LET val == encryptedMetric[key] IN
    IF ~isInitialized(val)
    THEN Revert(Call("requestMetricDecryption", 0, 0, key, "", "Metric not found", <<>>))
    ELSE
        /\ LET ciphertexts == <<toBytes32(val)>>
               reqId == Len(decryptionRequests)
           IN
            /\ decryptionRequests' = requestDecryption(ciphertexts, "handleMetricDecryption")
            /\ requestToSampleId' = [requestToSampleId EXCEPT ![reqId] = Keccak(key)]
            /\ last' = Call("requestMetricDecryption", Keccak(key), reqId, key, "", "ok", <<>>)
        /\ UNCHANGED <<sampleCount, encryptedSamples, transformations,
                       encryptedMetric, metricKeys, history>>

\* Variant: FHE.checkSignatures is not called.
handleMetricDecryption_noSigCheck(requestId, cleartexts, proof) ==
    LET pseudoId == requestToSampleId[requestId] IN
    IF pseudoId = 0
    THEN Revert(Call("handleMetricDecryption", 0, requestId, "", "", "Unknown request", <<>>))
    ELSE IF FALSE
    THEN Revert(Call("handleMetricDecryption", pseudoId, requestId, "", proof, "Invalid signatures", <<>>))
    ELSE
        LET decryptedValue == DecodeUint32(cleartexts) IN
        /\ doneMetric' = doneMetric \cup {requestId}
        /\ last' = Call("handleMetricDecryption", pseudoId, requestId, "", proof, "ok",
                        <<[name |-> "MetricDecrypted", pseudoId |-> pseudoId,
                           value |-> decryptedValue]>>)
        /\ UNCHANGED <<storage, decryptionRequests, submitLog, doneSample>>

\* Variant: the metric callback marks its target revealed, as the sample callback does.
handleMetricDecryption_marksRevealed(requestId, cleartexts, proof) ==
    LET pseudoId == requestToSampleId[requestId] IN
    IF pseudoId = 0
    THEN Revert(Call("handleMetricDecryption", 0, requestId, "", "", "Unknown request", <<>>))
    ELSE IF ~checkSignatures(requestId, cleartexts, proof)
    THEN Revert(Call("handleMetricDecryption", pseudoId, requestId, "", proof, "Invalid signatures", <<>>))
    ELSE
        LET decryptedValue == DecodeUint32(cleartexts) IN
        /\ doneMetric' = doneMetric \cup {requestId}
        /\ last' = Call("handleMetricDecryption", pseudoId, requestId, "", proof, "ok",
                        <<[name |-> "MetricDecrypted", pseudoId |-> pseudoId,
                           value |-> decryptedValue]>>)
        /\ transformations' = [transformations EXCEPT ![pseudoId].revealed = TRUE]
        /\ UNCHANGED <<sampleCount, encryptedSamples, requestToSampleId, encryptedMetric,
                       metricKeys, decryptionRequests, submitLog, doneSample>>

handleMetricDecryption(requestId, cleartexts, proof) ==
    LET pseudoId == requestToSampleId[requestId] IN
    IF pseudoId = 0
    THEN Revert(Call("handleMetricDecryption", 0, requestId, "", "", "Unknown request", <<>>))
    ELSE IF ~checkSignatures(requestId, cleartexts, proof)
    THEN Revert(Call("handleMetricDecryption", pseudoId, requestId, "", proof, "Invalid signatures", <<>>))
    ELSE
        LET decryptedValue == DecodeUint32(cleartexts) IN
        /\ doneMetric' = doneMetric \cup {requestId}
        /\ last' = Call("handleMetricDecryption", pseudoId, requestId, "", proof, "ok",
                        <<[name |-> "MetricDecrypted", pseudoId |-> pseudoId,
                           value |-> decryptedValue]>>)
        /\ UNCHANGED <<storage, decryptionRequests, submitLog, doneSample>>

\* Variant: the whole Transformation is deleted, descriptors included.
resetTransformationReveal_deletes(sampleId) ==
    /\ transformations' = [transformations EXCEPT ![sampleId] = NoTransformation]
    /\ last' = Call("resetTransformationReveal", sampleId, 0, "", "", "ok", <<>>)
    /\ UNCHANGED <<sampleCount, encryptedSamples, requestToSampleId, encryptedMetric,
                   metricKeys, decryptionRequests, history>>

\* Variant: the flag is set instead of cleared.
resetTransformationReveal_sets(sampleId) ==
    /\ transformations' = [transformations EXCEPT ![sampleId].revealed = TRUE]
    /\ last' = Call("resetTransformationReveal", sampleId, 0, "", "", "ok", <<>>)
    /\ UNCHANGED <<sampleCount, encryptedSamples, requestToSampleId, encryptedMetric,
                   metricKeys, decryptionRequests, history>>

resetTransformationReveal(sampleId) ==
    /\ transformations' = [transformations EXCEPT ![sampleId].revealed = FALSE]
    /\ last' = Call("resetTransformationReveal", sampleId, 0, "", "", "ok", <<>>)
    /\ UNCHANGED <<sampleCount, encryptedSamples, requestToSampleId, encryptedMetric,
                   metricKeys, decryptionRequests, history>>

\* ------------------------------------------------------------------- views
getTransformation(sampleId) ==
    LET t == transformations[sampleId] IN
    <<t.shapeDescriptor, t.textureDescriptor, t.revealed>>

listMetricKeys == metricKeys

getEncryptedSampleInfo(sampleId) ==
    LET s == encryptedSamples[sampleId]
        t == transformations[sampleId]
    IN  <<s.id, s.timestamp, s.submitter, t.revealed>>

\* ----------------------------------------------------------- specification
Submit ==
    /\ sampleCount < MaxSamples
    /\ \E in \in SubmitInputs : submitEncryptedSample(in)
    /\ UNCHANGED <<metricLog, frontend>>

\* A request that would be issued beyond the bound is not made.
CanRequest == Len(decryptionRequests) < MaxRequests

\* The ids and request ids the callers try: every one in use, and one beyond.
CallIds == (0 .. (sampleCount + 1)) \cup {Keccak(k) : k \in StoredKeys}

CallRequestIds == 0 .. Len(decryptionRequests)

RequestT ==
    \E id \in CallIds, sender \in Callers :
        /\ CanRequest \/ encryptedSamples[id].id = 0 \/ transformations[id].revealed
        /\ requestTransformation(id, sender)
        /\ UNCHANGED <<metricLog, frontend>>

HandleD ==
    \E r \in CallRequestIds, c \in Cleartexts, p \in Proofs :
        handleDecryption(r, c, p) /\ UNCHANGED <<metricLog, frontend>>

StoreM ==
    \E k \in StoredKeys, v \in MetricValues :
        storeEncryptedMetric(k, v) /\ UNCHANGED <<metricLog, frontend>>

RequestM ==
    \E k \in Keys :
        /\ CanRequest \/ ~isInitialized(encryptedMetric[k])
        /\ requestMetricDecryption(k)
        /\ UNCHANGED <<metricLog, frontend>>

HandleM ==
    \E r \in CallRequestIds, c \in Cleartexts, p \in Proofs :
        handleMetricDecryption(r, c, p) /\ UNCHANGED <<metricLog, frontend>>

Reset == \E id \in CallIds : resetTransformationReveal(id) /\ UNCHANGED <<metricLog, frontend>>

Next == Submit \/ RequestT \/ HandleD \/ StoreM \/ RequestM \/ HandleM \/ Reset

Spec == Init /\ [][Next]_vars

\* ------------------------------------------------------------------ claims
\* Request ids the oracle has issued for the given callback selector.
IssuedFor(selector) ==
    {r \in RequestIds : r < Len(decryptionRequests)
                        /\ decryptionRequests[r + 1].selector = selector}

Callbacks == {"handleDecryption", "handleMetricDecryption"}

\* C1: the k-th successful submitEncryptedSample assigns id k, sampleCount is
\* the number of successful submissions, and only submitEncryptedSample
\* changes sampleCount.
C1_SequentialIds ==
    /\ [](/\ Len(submitLog) = sampleCount
          /\ \A k \in 1 .. Len(submitLog) :
                submitLog[k] = k /\ encryptedSamples[k].id = k)
    /\ [][sampleCount' # sampleCount =>
            /\ last'.op = "submitEncryptedSample"
            /\ sampleCount' = sampleCount + 1
            /\ last'.id = sampleCount']_vars

C1_Witness ==
    /\ sampleCount = 2
    /\ submitLog = <<1, 2>>
    /\ last.op = "resetTransformationReveal"

\* C2: revealed goes from false to true only in a handleDecryption step
\* whose request id is in the ledger for that id and whose proof passed
\* FHE.checkSignatures.
C2_RevealOnlyByCallback ==
    [][\A id \in Ids :
          (~transformations[id].revealed /\ transformations'[id].revealed) =>
              /\ last'.op = "handleDecryption"
              /\ last'.result = "ok"
              /\ requestToSampleId[last'.requestId] # 0
              /\ requestToSampleId[last'.requestId] = id
              /\ last'.proof # ""
              /\ checkSignatures(last'.requestId, <<>>, last'.proof)]_vars

C2_Witness ==
    /\ last.op = "handleDecryption"
    /\ last.result = "ok"
    /\ last.id \in 1 .. sampleCount
    /\ transformations[last.id].revealed

\* C3 (as claimed): a request id issued by requestMetricDecryption is never
\* accepted by handleDecryption, and one issued by requestTransformation is
\* never accepted by handleMetricDecryption.
C3_OneKindPerToken ==
    /\ (last.op = "handleDecryption"
            /\ last.requestId \in IssuedFor("handleMetricDecryption"))
        => last.result # "ok"
    /\ (last.op = "handleMetricDecryption"
            /\ last.requestId \in IssuedFor("handleDecryption"))
        => last.result # "ok"

\* C4: a callback whose proof fails FHE.checkSignatures changes no storage,
\* issues nothing and emits no event.
C4_AuthFailClosed ==
    [][(last'.op \in Callbacks
            /\ last'.proof # ""
            /\ ~checkSignatures(last'.requestId, <<>>, last'.proof)) =>
          /\ last'.result # "ok"
          /\ last'.events = <<>>
          /\ UNCHANGED <<storage, decryptionRequests>>]_vars

C4_Witness ==
    /\ last.op = "handleMetricDecryption"
    /\ last.result = "Invalid signatures"
    /\ isInitialized(encryptedMetric["heat"])
    /\ sampleCount > 0

\* C5 (as claimed): once handleDecryption has succeeded for a request id,
\* every later handleDecryption with that request id fails.
C5_SampleCallbackOnce ==
    [][(last'.op = "handleDecryption" /\ last'.requestId \in doneSample)
          => last'.result # "ok"]_vars

\* C6 (as claimed): handleMetricDecryption succeeds at most once per request
\* id issued by requestMetricDecryption.
C6_MetricCallbackOnce ==
    [][(last'.op = "handleMetricDecryption"
            /\ last'.requestId \in doneMetric
            /\ last'.requestId \in IssuedFor("handleMetricDecryption"))
          => last'.result # "ok"]_vars

\* C7: handleDecryption with a request id that is not in the ledger fails
\* with "Unknown request", changes no storage and emits no event.
C7_UnknownRequest ==
    [][(last'.op = "handleDecryption" /\ requestToSampleId[last'.requestId] = 0) =>
          /\ last'.result = "Unknown request"
          /\ last'.events = <<>>
          /\ UNCHANGED <<storage, decryptionRequests>>]_vars

C7_Witness ==
    /\ last.op = "handleDecryption"
    /\ last.result = "Unknown request"
    /\ requestToSampleId[last.requestId] = 0
    /\ decryptionRequests # <<>>

\* C8: handleDecryption for a ledger request id whose target is already
\* revealed fails with "Already processed" and leaves the descriptors and
\* the flag as they were.
C8_AlreadyRevealedCallback ==
    [][(/\ last'.op = "handleDecryption"
        /\ requestToSampleId[last'.requestId] # 0
        /\ transformations[requestToSampleId[last'.requestId]].revealed) =>
          /\ last'.result = "Already processed"
          /\ last'.events = <<>>
          /\ transformations' = transformations]_vars

C8_Witness ==
    /\ last.op = "handleDecryption"
    /\ last.result = "Already processed"
    /\ transformations[last.id].revealed
    /\ transformations[last.id].shapeDescriptor # ""

\* C9: requestTransformation for id 0 or for an id above sampleCount fails
\* with "Invalid sample": no oracle request, no ledger entry, no event.
C9_InvalidTarget ==
    [][(last'.op = "requestTransformation"
            /\ (last'.id = 0 \/ last'.id > sampleCount)) =>
          /\ last'.result = "Invalid sample"
          /\ last'.events = <<>>
          /\ UNCHANGED <<storage, decryptionRequests>>]_vars

C9_Witness ==
    /\ last.op = "requestTransformation"
    /\ last.result = "Invalid sample"
    /\ last.id > sampleCount
    /\ sampleCount > 0

\* C10: requestTransformation for a registered sample that is already
\* revealed fails with "Already revealed": no oracle request, no ledger entry.
C10_AlreadyRevealedRequest ==
    [][(/\ last'.op = "requestTransformation"
        /\ last'.id \in 1 .. sampleCount
        /\ transformations[last'.id].revealed) =>
          /\ last'.result = "Already revealed"
          /\ last'.events = <<>>
          /\ UNCHANGED <<requestToSampleId, decryptionRequests>>]_vars

C10_Witness ==
    /\ last.op = "requestTransformation"
    /\ last.result = "Already revealed"
    /\ last.id \in 1 .. sampleCount
    /\ transformations[last.id].revealed

\* ---------------------------------------------------- reveal specification
\* The payloads the oracle delivers in SpecReveal: string lists of every
\* length from 0 to 3.
RevealCleartexts ==
    { [kind |-> "strings", strings |-> ss, value |-> <<0, 0>>] :
        ss \in { <<>>, <<"sphere">>, <<"sphere", "soft">>, <<"sphere", "soft", "warm">> } }

HandleDReveal ==
    \E r \in CallRequestIds, c \in RevealCleartexts, p \in Proofs :
        handleDecryption(r, c, p) /\ UNCHANGED <<metricLog, frontend>>

NextReveal == Submit \/ RequestT \/ HandleDReveal \/ Reset

SpecReveal == Init /\ [][NextReveal]_vars

\* The i-th string of a payload, "" when it has fewer.
ElementOrEmpty(c, i) == IF i <= Len(c.strings) THEN c.strings[i] ELSE ""

\* C11: after an authenticated handleDecryption(T, payload) for the request
\* id T of sample id, getTransformation(id) is (payload[0], payload[1], true)
\* with "" for a missing element, and a second handleDecryption with T right
\* after it fails with "Already processed".
C11_RevealScenario ==
    [][/\ \A r \in RequestIds, c \in RevealCleartexts :
            (/\ r \in IssuedFor("handleDecryption")
             /\ handleDecryption(r, c, "valid")
             /\ last'.result = "ok") =>
                LET id == requestToSampleId[r] IN
                /\ id \in 1 .. sampleCount
                /\ getTransformation(id)' =
                      <<ElementOrEmpty(c, 1), ElementOrEmpty(c, 2), TRUE>>
       /\ (/\ last.op = "handleDecryption" /\ last.result = "ok"
           /\ last'.op = "handleDecryption" /\ last'.requestId = last.requestId) =>
                last'.result = "Already processed"]_vars

C11_Witness ==
    /\ last.op = "handleDecryption"
    /\ last.result = "Already processed"
    /\ last.requestId \in doneSample
    /\ getTransformation(last.id) = <<"sphere", "", TRUE>>

\* ---------------------------------------------------- metric specification
\* The values accumulated in SpecMetric: the uninitialised handle, 5, 7 and
\* 2^32 - 1, under either key, MaxStores of them in all.
MetricInputs == {Uninit, Enc(0, 5), Enc(0, 7), Enc(Half - 1, Half - 1)}

TotalStored == Len(metricLog["heat"]) + Len(metricLog["pulse"])

StoreLogged ==
    \E k \in Keys, v \in MetricInputs :
        /\ TotalStored < MaxStores
        /\ storeEncryptedMetric(k, v)
        /\ metricLog' = [metricLog EXCEPT ![k] = Append(@, v)]
        /\ UNCHANGED frontend

NextMetric == StoreLogged

SpecMetric == Init /\ [][NextMetric]_vars

\* What one storeEncryptedMetric call makes of the running sum.
Accumulate(sum, value) == IF ~isInitialized(sum) THEN value ELSE FHEadd(sum, value)

RECURSIVE AccumulateAll(_)
AccumulateAll(values) ==
    IF values = <<>> THEN Uninit
    ELSE Accumulate(AccumulateAll(SubSeq(values, 1, Len(values) - 1)),
                    values[Len(values)])

Orders(n) == {p \in [1 .. n -> 1 .. n] : \A i, j \in 1 .. n : p[i] = p[j] => i = j}

Permuted(values, p) == [i \in 1 .. Len(values) |-> values[p[i]]]

\* C12: the running sum of a key is what accumulating the values stored for
\* it gives in any other order.
C12_OrderIndependent ==
    \A k \in Keys : \A p \in Orders(Len(metricLog[k])) :
        AccumulateAll(Permuted(metricLog[k], p)) = encryptedMetric[k]

C12_Witness ==
    /\ Len(metricLog["heat"]) = 3
    /\ metricLog["heat"][1] = Enc(Half - 1, Half - 1)
    /\ metricLog["heat"][2] = Uninit
    /\ metricLog["heat"][3] = Enc(0, 7)
    /\ encryptedMetric["heat"] = Enc(0, 6)

\* --------------------------------------------- metric reveal specification
\* The oracle's answer to request r: the plaintext of the first ciphertext
\* it was asked to decrypt, ABI-encoded as a uint32.
OracleAnswer(r) ==
    LET ct == decryptionRequests[r + 1].ciphertexts[1] IN
    [kind |-> "uint32", strings |-> <<>>, value |-> <<ct[2], ct[3]>>]

RequestMLogged ==
    \E k \in Keys :
        /\ CanRequest \/ ~isInitialized(encryptedMetric[k])
        /\ requestMetricDecryption(k)
        /\ UNCHANGED <<metricLog, frontend>>

HandleMAnswer ==
    \E r \in IssuedFor("handleMetricDecryption") :
        handleMetricDecryption(r, OracleAnswer(r), "valid") /\ UNCHANGED <<metricLog, frontend>>

NextMetricReveal == StoreLogged \/ RequestMLogged \/ HandleMAnswer

SpecMetricReveal == Init /\ [][NextMetricReveal]_vars

RECURSIVE SumHi(_)
SumHi(values) == IF values = <<>> THEN 0 ELSE values[1].hi + SumHi(Tail(values))

RECURSIVE SumLo(_)
SumLo(values) == IF values = <<>> THEN 0 ELSE values[1].lo + SumLo(Tail(values))

\* The arithmetic sum of the plaintexts modulo 2^32, as <<hi, lo>>.
Sum32(values) ==
    <<(SumHi(values) + (SumLo(values) \div Half)) % Half, SumLo(values) % Half>>

Plain(h) == <<h.hi, h.lo>>

C14_MetricRequest ==
    [][\A k \in Keys :
          requestMetricDecryption(k) =>
              IF metricLog[k] = <<>>
              THEN /\ last'.result = "Metric not found"
                   /\ decryptionRequests' = decryptionRequests
                   /\ requestToSampleId' = requestToSampleId
              ELSE last'.result = "ok"]_vars

\* --------------------------------------------------- retry specification
\* Samples with several requests pending: the oracle hands out up to
\* MaxPending request ids.
RequestTRetry ==
    \E id \in CallIds :
        /\ Len(decryptionRequests) < MaxPending
             \/ encryptedSamples[id].id = 0 \/ transformations[id].revealed
        /\ requestTransformation(id, "bob")
        /\ UNCHANGED <<metricLog, frontend>>

HandleDRetry ==
    \E r \in CallRequestIds, p \in Proofs :
        /\ handleDecryption(r, [kind |-> "strings", strings |-> <<"cube">>,
                                value |-> <<0, 0>>], p)
        /\ UNCHANGED <<metricLog, frontend>>

NextRetry == Submit \/ RequestTRetry \/ HandleDRetry \/ Reset

SpecRetry == Init /\ [][NextRetry]_vars

\* The request ids issued for sample id by requestTransformation.
TokensOf(id) ==
    {r \in IssuedFor("handleDecryption") : requestToSampleId[r] = id}

\* C15 as stated: re-issuing requestTransformation records a fresh token and
\* keeps the earlier entries, and of the tokens of one sample at most one
\* ever has a successful callback.
C15_AtMostOneCallback ==
    \A id \in 1 .. sampleCount : Cardinality(TokensOf(id) \cap doneSample) <= 1

\* C15, amended: re-issuing requestTransformation for a registered sample
\* that is not revealed succeeds with a request id not issued before, mapped
\* to the same sample, and leaves every earlier ledger entry as it was; a
\* callback for any token of a sample whose Transformation is revealed fails
\* with "Already processed", and only resetTransformationReveal makes a
\* revealed Transformation unrevealed again.
C15_RetryFreshToken ==
    /\ [][\A id \in 1 .. sampleCount, sender \in Callers :
            (/\ ~transformations[id].revealed
             /\ requestTransformation(id, sender)) =>
                LET r == last'.requestId IN
                /\ last'.result = "ok"
                /\ r \notin IssuedFor("handleDecryption") \cup IssuedFor("handleMetricDecryption")
                /\ requestToSampleId[r] = 0
                /\ requestToSampleId' = [requestToSampleId EXCEPT ![r] = id]
                /\ TokensOf(id)' = TokensOf(id) \cup {r}]_vars
    /\ [][\A id \in 1 .. sampleCount : \A r \in TokensOf(id) :
            \A c \in StringCleartexts \cup RevealCleartexts, p \in Proofs :
                (transformations[id].revealed /\ handleDecryption(r, c, p)) =>
                    /\ last'.result = "Already processed"
                    /\ transformations' = transformations]_vars
    /\ [][\A id \in 1 .. sampleCount :
            (transformations[id].revealed /\ ~transformations'[id].revealed) =>
                last'.op = "resetTransformationReveal"]_vars

C15_Witness ==
    /\ TokensOf(1) = {0, 1}
    /\ doneSample = {0}
    /\ last.op = "handleDecryption"
    /\ last.requestId = 1
    /\ last.result = "Already processed"

\* C16: every sample goes Submitted -> RequestIssued -> Revealed in that
\* order: a sample's Transformation is revealed only if a requestTransformation
\* for that sample id has succeeded, and a requestTransformation has succeeded
\* for an id only if submitEncryptedSample assigned that id; the step that
\* reveals it is a callback for one of the sample's request ids.
C16_Lifecycle ==
    /\ [](\A id \in SampleIds :
            /\ transformations[id].revealed => TokensOf(id) # {}
            /\ TokensOf(id) # {} => \E i \in DOMAIN submitLog : submitLog[i] = id)
    /\ [][transformations' # transformations =>
            \A id \in SampleIds :
                (~transformations[id].revealed /\ transformations'[id].revealed) =>
                    /\ last'.op = "handleDecryption"
                    /\ last'.requestId \in TokensOf(id)]_vars
    /\ [][requestToSampleId' # requestToSampleId =>
            \A id \in SampleIds :
                (TokensOf(id) = {} /\ TokensOf(id)' # {}) =>
                    /\ last'.op = "requestTransformation"
                    /\ id \in 1 .. sampleCount]_vars

C16_Witness ==
    /\ sampleCount = 2
    /\ submitLog = <<1, 2>>
    /\ TokensOf(2) = {0}
    /\ transformations[2].revealed
    /\ ~transformations[1].revealed
    /\ last.op = "handleDecryption"

\* C17: no authorization is enforced: a requestTransformation step taken by
\* one caller is the very step any other caller would take from the same
\* state (same result, same ledger entry, same event), also when the caller
\* is not the sample's submitter.
C17_CallerIndependent ==
    [][\A id \in Ids, a \in Callers, b \in Callers :
          requestTransformation(id, a) => requestTransformation(id, b)]_vars

C17_Witness ==
    /\ last.op = "requestTransformation"
    /\ last.result = "ok"
    /\ encryptedSamples[last.id].submitter = "alice"
    /\ requestToSampleId[last.requestId] = last.id

\* C18: the reads reject id 0 and every id never issued as not-found instead
\* of returning a record: what getTransformation and getEncryptedSampleInfo
\* answer for such an id is not an answer they give for a registered sample.
C18_ReadsRejectUnknown ==
    \A id \in Ids \ (1 .. sampleCount) : \A known \in 1 .. sampleCount :
        /\ getTransformation(id) # getTransformation(known)
        /\ getEncryptedSampleInfo(id) # getEncryptedSampleInfo(known)

\* C19: each key is listed exactly once: listMetricKeys has no duplicates and
\* holds a key exactly when storeEncryptedMetric has been called for it, with
\* any handle, an uninitialised one included.
C19_KeysListedOnce ==
    \A k \in Keys :
        Cardinality({i \in DOMAIN listMetricKeys : listMetricKeys[i] = k})
            = (IF metricLog[k] = <<>> THEN 0 ELSE 1)

\* ------------------------------------------------ submission specification
\* Submissions that differ in every argument, caller and block time.
SampleInputs ==
    { [intensity |-> Enc(0, 3), frequency |-> Enc(0, 40), contactType |-> Enc(0, 1),
       sender |-> "alice", time |-> 1000],
      [intensity |-> Enc(1, 0), frequency |-> Uninit, contactType |-> Enc(0, 2),
       sender |-> "bob", time |-> 1001] }

SubmitAny ==
    /\ sampleCount < MaxSamples
    /\ \E in \in SampleInputs : submitEncryptedSample(in)
    /\ UNCHANGED <<metricLog, frontend>>

NextSubmit == SubmitAny \/ RequestTRetry \/ HandleDRetry \/ Reset

SpecSubmit == Init /\ [][NextSubmit]_vars

\* C20: a submitEncryptedSample stores under the new id the three handles as
\* given, the caller as submitter and the block time, and a Transformation
\* with empty descriptors and revealed = FALSE; it emits
\* SampleSubmitted(newId, submitter, timestamp); getTransformation(id) stays
\* ("", "", FALSE) until a handleDecryption succeeds.
C20_SubmitStores ==
    /\ [][\A in \in SampleInputs :
            submitEncryptedSample(in) =>
                LET newId == sampleCount + 1 IN
                /\ last'.result = "ok"
                /\ encryptedSamples'[newId] =
                      [id |-> newId, encryptedIntensity |-> in.intensity,
                       encryptedFrequency |-> in.frequency,
                       encryptedContactType |-> in.contactType,
                       timestamp |-> in.time, submitter |-> in.sender]
                /\ transformations'[newId] =
                      [shapeDescriptor |-> "", textureDescriptor |-> "", revealed |-> FALSE]
                /\ getTransformation(newId)' = <<"", "", FALSE>>
                /\ last'.events = <<[name |-> "SampleSubmitted", id |-> newId,
                                     submitter |-> in.sender, timestamp |-> in.time]>>]_vars
    /\ [][\A id \in 1 .. sampleCount :
            (/\ getTransformation(id) = <<"", "", FALSE>>
             /\ getTransformation(id)' # <<"", "", FALSE>>) =>
                /\ last'.op = "handleDecryption"
                /\ last'.result = "ok"
                /\ requestToSampleId[last'.requestId] = id]_vars

C20_Witness ==
    /\ sampleCount = 2
    /\ last.op = "submitEncryptedSample"
    /\ encryptedSamples[2].encryptedIntensity = Enc(1, 0)
    /\ encryptedSamples[2].encryptedFrequency = Uninit
    /\ encryptedSamples[2].submitter = "bob"
    /\ encryptedSamples[2].timestamp = 1001
    /\ getTransformation(2) = <<"", "", FALSE>>
    /\ getTransformation(1) = <<"cube", "", TRUE>>

\* C21: a stored Sample is immutable: once submitEncryptedSample has written
\* encryptedSamples[id], no step (further submissions, requests, callbacks,
\* reset, metric operations) changes its id, handles, timestamp or submitter.
C21_SampleImmutable ==
    [][encryptedSamples' # encryptedSamples =>
          \A i \in DOMAIN submitLog :
              encryptedSamples'[submitLog[i]] = encryptedSamples[submitLog[i]]]_vars

C21_Witness ==
    /\ sampleCount = 2
    /\ encryptedSamples[1] =
          [id |-> 1, encryptedIntensity |-> Enc(0, 3), encryptedFrequency |-> Enc(0, 40),
           encryptedContactType |-> Enc(0, 1), timestamp |-> 1000, submitter |-> "alice"]
    /\ metricKeys # <<>>
    /\ doneSample # {}
    /\ last.op = "resetTransformationReveal"
    /\ last.id = 1
    /\ transformations[1].shapeDescriptor = "cube"

\* What a step changed, by component.
SamplesChanged == sampleCount' # sampleCount \/ encryptedSamples' # encryptedSamples
TransformationsChanged == transformations' # transformations
LedgerChanged == requestToSampleId' # requestToSampleId
MetricsChanged == encryptedMetric' # encryptedMetric \/ metricKeys' # metricKeys

\* C22: each operation writes its own component only: submitEncryptedSample
\* leaves the ledger and the metric store alone; requestTransformation and
\* requestMetricDecryption change nothing but the ledger; storeEncryptedMetric
\* changes nothing but the metric store and the key list; handleDecryption
\* changes nothing but one Transformation; handleMetricDecryption changes no
\* stored state.
C22_OwnComponentOnly ==
    [][storage' # storage =>
          /\ last'.op = "submitEncryptedSample" => ~LedgerChanged /\ ~MetricsChanged
          /\ last'.op \in {"requestTransformation", "requestMetricDecryption"} =>
                 ~SamplesChanged /\ ~TransformationsChanged /\ ~MetricsChanged
          /\ last'.op = "storeEncryptedMetric" =>
                 ~SamplesChanged /\ ~TransformationsChanged /\ ~LedgerChanged
          /\ last'.op = "handleDecryption" =>
                 /\ ~SamplesChanged /\ ~LedgerChanged /\ ~MetricsChanged
                 /\ Cardinality({id \in Ids : transformations'[id] # transformations[id]}) <= 1
          /\ last'.op # "handleMetricDecryption"]_vars

C22_Witness ==
    /\ last.op = "handleMetricDecryption"
    /\ last.result = "ok"
    /\ last.id = Keccak("heat")
    /\ sampleCount = 2
    /\ encryptedMetric["heat"] # Uninit
    /\ requestToSampleId[0] = Keccak("heat")

\* C23: a Transformation that is revealed or has a non-empty descriptor
\* belongs to a registered sample: its id is in 1 .. sampleCount (so
\* transformations[0] is never revealed).
C23_RevealedIsRegistered ==
    \A id \in Ids :
        (\/ transformations[id].revealed
         \/ transformations[id].shapeDescriptor # ""
         \/ transformations[id].textureDescriptor # "") => id \in 1 .. sampleCount

C25_ResetOnlyFlag ==
    [][last'.op = "resetTransformationReveal" =>
          /\ last'.result = "ok"
          /\ ~transformations'[last'.id].revealed
          /\ transformations'[last'.id].shapeDescriptor
                = transformations[last'.id].shapeDescriptor
          /\ transformations'[last'.id].textureDescriptor
                = transformations[last'.id].textureDescriptor
          /\ \A id \in Ids \ {last'.id} : transformations'[id] = transformations[id]
          /\ ~SamplesChanged /\ ~LedgerChanged /\ ~MetricsChanged]_vars

C25_Witness ==
    /\ last.op = "resetTransformationReveal"
    /\ last.id = 1
    /\ transformations[1] =
          [shapeDescriptor |-> "sphere", textureDescriptor |-> "soft", revealed |-> FALSE]
    /\ 0 \in doneSample

\* ------------------------------------------------- front-end specification
\* submitRecord and loadRecords of the page, run by Clients against one
\* storage contract. Every await is a step; a setData that has resolved has
\* been applied.
contractState == <<storage, decryptionRequests, last, history, metricLog>>

\* const recordId = `${Date.now()}-${random}`: a new id, later ids are larger.
submitRecord_begin(c) ==
    /\ pc[c] = "idle"
    /\ nextRecord' = nextRecord + 1
    /\ recordId' = [recordId EXCEPT ![c] = nextRecord + 1]
    /\ pc' = [pc EXCEPT ![c] = "setRecord"]
    /\ UNCHANGED <<kvKeys, kvRecords, keys, shown, succeeded, contractState>>

\* await contract.setData(`haptic_${recordId}`, ...)
submitRecord_setRecord(c) ==
    /\ pc[c] = "setRecord"
    /\ kvRecords' = kvRecords \cup {recordId[c]}
    /\ pc' = [pc EXCEPT ![c] = "getKeys"]
    /\ UNCHANGED <<kvKeys, recordId, keys, shown, nextRecord, succeeded, contractState>>

\* A setData that throws (the user rejects the transaction): the catch block
\* reports the error and submitRecord ends without success.
submitRecord_rejected(c) ==
    /\ pc[c] \in {"setRecord", "setKeys"}
    /\ pc' = [pc EXCEPT ![c] = "idle"]
    /\ UNCHANGED <<kvKeys, kvRecords, recordId, keys, shown, nextRecord, succeeded,
                   contractState>>

\* const keysBytes = await contract.getData("haptic_keys"); keys = parse or []
submitRecord_getKeys(c) ==
    /\ pc[c] = "getKeys"
    /\ keys' = [keys EXCEPT ![c] = ParseKeys(kvKeys)]
    /\ pc' = [pc EXCEPT ![c] = "setKeys"]
    /\ UNCHANGED <<kvKeys, kvRecords, recordId, shown, nextRecord, succeeded, contractState>>

\* keys.push(recordId); await contract.setData("haptic_keys", ...); status "success"
submitRecord_setKeys(c) ==
    /\ pc[c] = "setKeys"
    /\ kvKeys' = StringifyKeys(Append(keys[c], recordId[c]))
    /\ keys' = [keys EXCEPT ![c] = Append(@, recordId[c])]
    /\ succeeded' = succeeded \cup {recordId[c]}
    /\ pc' = [pc EXCEPT ![c] = "loadRecords"]
    /\ UNCHANGED <<kvRecords, recordId, shown, nextRecord, contractState>>

\* The ids of list, those with stored data only, newest first.
RECURSIVE Listed(_, _)
Listed(list, stored) ==
    IF list = <<>> THEN <<>>
    ELSE LET rest == Listed(SubSeq(list, 1, Len(list) - 1), stored)
             k == list[Len(list)]
         IN  IF k \in stored THEN <<k>> \o rest ELSE rest

\* await loadRecords(): reads the index, then each record it names.
loadRecords(c) ==
    /\ pc[c] = "loadRecords"
    /\ shown' = [shown EXCEPT ![c] = Listed(ParseKeys(kvKeys), kvRecords)]
    /\ pc' = [pc EXCEPT ![c] = "idle"]
    /\ UNCHANGED <<kvKeys, kvRecords, recordId, keys, nextRecord, succeeded, contractState>>

Begin == \E c \in Clients : nextRecord < MaxRecords /\ submitRecord_begin(c)
SetRecord == \E c \in Clients : submitRecord_setRecord(c)
Rejected == \E c \in Clients : submitRecord_rejected(c)
GetKeys == \E c \in Clients : submitRecord_getKeys(c)
SetKeys == \E c \in Clients : submitRecord_setKeys(c)
Load == \E c \in Clients : loadRecords(c)

NextFront == Begin \/ SetRecord \/ Rejected \/ GetKeys \/ SetKeys \/ Load

SpecFront == Init /\ [][NextFront]_vars

\* C26: every record whose submitRecord completed successfully is in the
\* stored "haptic_keys" index from then on, also when two clients run
\* submitRecord concurrently.
C26_NoLostRecord ==
    \A id \in succeeded :
        \E i \in DOMAIN ParseKeys(kvKeys) : ParseKeys(kvKeys)[i] = id

====
